---- MODULE Spec2Model ----
(***************************************************************************)
(* Timeline projection (useCalculations.ts) and drag state machine         *)
(* (useDrag.ts) of the Gantt component, as wired together in Gantt.vue.    *)
(*                                                                         *)
(* Dates are local wall-clock values [day, ms]: day counts calendar days   *)
(* from Jan 1 of EpochYear, ms is the millisecond within the day.          *)
(* getTime() differences are taken after subtracting the zone's offset,    *)
(* so a daylight-saving zone shortens or lengthens a span by one hour.     *)
(*                                                                         *)
(* Pixel quantities are exact rationals kept as integer numerators over    *)
(* PxDen(viewMode); pointer coordinates (clientX) are whole pixels.        *)
(***************************************************************************)
EXTENDS Integers, Sequences, FiniteSets, TLC

VARIABLES
    selectedYear,        \* props.year
    viewMode,            \* props.view
    containerWidth,      \* containerWidth ref (px)
    tz,                  \* the runtime's local time zone rule
    items,               \* props.items, the caller's collection
    dayPositionCache,    \* Map<number, number> of useCalculations
    computedObjectives,  \* filteredItems.map(computeDateBasedPosition), as rendered
    isDragging, dragType, activeItemIndex,
    initialMouseX, initialItemWidth, initialItemStartPx,
    initialStartDay, initialEndDay,
    lastProcessedX, isFirstDragMovement,
    activeItemStyle, tooltipState, userSelect,
    emitted,             \* notifications raised by the most recent handler call
    lastOp,              \* the most recent handler call and its pointer X
    propChanges,         \* how many times the caller has changed a prop
    calc                 \* result of the most recent direct call of a pure function

vars == <<selectedYear, viewMode, containerWidth, tz, items, dayPositionCache,
          computedObjectives, isDragging, dragType, activeItemIndex,
          initialMouseX, initialItemWidth, initialItemStartPx, initialStartDay,
          initialEndDay, lastProcessedX, isFirstDragMovement, activeItemStyle,
          tooltipState, userSelect, emitted, lastOp, propChanges, calc>>

sessionVars == <<isDragging, dragType, activeItemIndex, initialMouseX,
                 initialItemWidth, initialItemStartPx, initialStartDay,
                 initialEndDay, lastProcessedX, isFirstDragMovement,
                 activeItemStyle, tooltipState, userSelect>>

propVars == <<selectedYear, viewMode, containerWidth, tz, items>>

----------------------------------------------------------------------------
(* Integer helpers: Math.max, Math.min, Math.abs, Math.round *)

Max(a, b) == IF a >= b THEN a ELSE b

Min(a, b) == IF a <= b THEN a ELSE b

Abs(a) == IF a >= 0 THEN a ELSE -a

\* floor(n / d) for d > 0, also for negative n
FloorDiv(n, d) == IF n >= 0 THEN n \div d ELSE -((-n + d - 1) \div d)

\* Math.round(n / d) for d > 0: nearest integer, halves towards +infinity
RoundDiv(n, d) ==
    LET q == FloorDiv(n, d)
        r == n - q * d
    IN  IF 2 * r >= d THEN q + 1 ELSE q

----------------------------------------------------------------------------
(* The calendar behind JavaScript's Date *)

EpochYear == 2020

CalYears == EpochYear .. (EpochYear + 9)

MsPerDay == 24 * 60 * 60 * 1000

\* 23:59:59.999 as the millisecond of the day
EndOfDayMs == MsPerDay - 1

\* 23:59:59.000 as the millisecond of the day
LastSecondMs == MsPerDay - 1000

HourMs == 60 * 60 * 1000

IsLeap(y) == (y % 4 = 0 /\ y % 100 # 0) \/ y % 400 = 0

YearLen(y) == IF IsLeap(y) THEN 366 ELSE 365

\* new Date(y, m + 1, 0).getDate(), m in 0..11
DaysInMonth(y, m) ==
    IF m = 1 THEN (IF IsLeap(y) THEN 29 ELSE 28)
    ELSE IF m \in {3, 5, 8, 10} THEN 30 ELSE 31

RECURSIVE YearStartDay(_)
\* day number of Jan 1 of year y
YearStartDay(y) ==
    IF y <= EpochYear THEN 0 ELSE YearStartDay(y - 1) + YearLen(y - 1)

RECURSIVE DaysBeforeMonth(_, _)
\* days of year y before the first of month m
DaysBeforeMonth(y, m) ==
    IF m = 0 THEN 0 ELSE DaysBeforeMonth(y, m - 1) + DaysInMonth(y, m - 1)

\* Jan 1 of every calendar year, tabulated
YearStartTable == [y \in CalYears |-> YearStartDay(y)]

\* The calendar year a day number falls in
YearContaining(day) ==
    CHOOSE yy \in CalYears : YearStartDay(yy) <= day /\ day < YearStartDay(yy + 1)

\* The month (0..11) the 0-based day-of-year doy of year y falls in
MonthContaining(y, doy) ==
    CHOOSE mm \in 0 .. 11 :
        DaysBeforeMonth(y, mm) <= doy /\ doy < DaysBeforeMonth(y, mm + 1)

\* year, month (0..11), day of month and 0-based day of year of a day
DayRecord(y, m, doy) ==
    [year |-> y, month |-> m, date |-> doy - DaysBeforeMonth(y, m) + 1, doy |-> doy]

DayInYear(y, doy) == DayRecord(y, MonthContaining(y, doy), doy)

DayOfNumber(y, day) == DayInYear(y, day - YearStartDay(y))

\* The calendar date of every day number, tabulated
DayTable ==
    [day \in 0 .. (YearStartDay(EpochYear + 10) - 1) |->
        DayOfNumber(YearContaining(day), day)]

\* getFullYear()
YearOfDay(day) == DayTable[day].year

\* getMonth()
MonthOfDay(day) == DayTable[day].month

\* getDate()
DateOfDay(day) == DayTable[day].date

\* new Date(y, m, d, ...) with d counted from 1
MkDate(y, m, d, ms) ==
    [day |-> YearStartTable[y] + DaysBeforeMonth(y, m) + d - 1, ms |-> ms]

\* First and last day-of-year (0-based, half-open) of daylight-saving time
DstFirstDoy == 89

DstLastDoy == 301

TimeZones == {"fixed", "north"}

\* Whether daylight-saving time is on, on the 0-based day of year doy
\* of the northern rule
InDstWindow(doy) == DstFirstDoy <= doy /\ doy < DstLastDoy

\* Milliseconds the local clock is ahead of the zone's standard time on a day
DstShift(zone, day) ==
    IF zone = "fixed" THEN 0
    ELSE IF InDstWindow(DayTable[day].doy) = (zone = "north") THEN HourMs
    ELSE 0

\* A time of <<day, ms>> with ms brought back into the day
NormalTime(day, ms) == IF ms < 0 THEN <<day - 1, ms + MsPerDay>> ELSE <<day, ms>>

\* getTime(), up to the zone's constant standard offset, as <<day, ms>>
GetTime(zone, date) == NormalTime(date.day, date.ms - DstShift(zone, date.day))

\* ta < tb on getTime() values
TimeLT(ta, tb) == ta[1] < tb[1] \/ (ta[1] = tb[1] /\ ta[2] < tb[2])

\* Math.floor((ta - tb) / msPerDay) on getTime() values
FloorDays(ta, tb) == (ta[1] - tb[1]) - (IF ta[2] >= tb[2] THEN 0 ELSE 1)

\* Math.ceil((ta - tb) / msPerDay) on getTime() values
CeilDays(ta, tb) == (ta[1] - tb[1]) + (IF ta[2] > tb[2] THEN 1 ELSE 0)

\* a < b on Date objects
DateLT(zone, a, b) == TimeLT(GetTime(zone, a), GetTime(zone, b))

\* Math.floor((a.getTime() - b.getTime()) / (24 * 60 * 60 * 1000))
FloorDaysBetween(zone, a, b) == FloorDays(GetTime(zone, a), GetTime(zone, b))

\* Math.ceil((a.getTime() - b.getTime()) / (24 * 60 * 60 * 1000))
CeilDaysBetween(zone, a, b) == CeilDays(GetTime(zone, a), GetTime(zone, b))

\* date.setHours(h, m, s, ms) keeps the local calendar day
SetHours(date, ms) == [day |-> date.day, ms |-> ms]

----------------------------------------------------------------------------
(* useCalculations.ts *)

ViewModes == {"months", "weeks", "days"}

\* Denominator of dayWidth: containerWidth / (12 * 30), / (10 * 7), / 30
DayDen(view) == IF view = "months" THEN 360 ELSE IF view = "weeks" THEN 70 ELSE 30

\* 360 * 61 * 367, the least common multiple of 360, 366 and 367
MonthsPxDen == 360 * 61 * 367

\* Denominator of every pixel numerator in a view mode
PxDen(view) == IF view = "months" THEN MonthsPxDen ELSE DayDen(view)

daysInYear(zone, year) ==
    CeilDaysBetween(zone, MkDate(year, 11, 31, LastSecondMs), MkDate(year, 0, 1, 0)) + 1

\* dayWidth as a numerator over PxDen(view)
dayWidth(view, cw) == cw * (PxDen(view) \div DayDen(view))

totalTimeUnits(zone, view, year) ==
    IF view = "months" THEN 12
    ELSE IF view = "weeks" THEN (daysInYear(zone, year) + 6) \div 7
    ELSE daysInYear(zone, year)

timelineWidth(zone, view, year, cw) ==
    IF view = "months" THEN cw * PxDen(view)
    ELSE Max(cw * PxDen(view), dayWidth(view, cw) * daysInYear(zone, year))

\* filteredIndices that keeps only the items starting in the visible year
filteredIndicesStartingInYear(its, year) ==
    SelectSeq([i \in 1 .. Len(its) |-> i],
              LAMBDA i : YearOfDay(its[i].startDate.day) = year)

\* indices of the items the year filter keeps, in order
filteredIndices(its, year) ==
    SelectSeq([i \in 1 .. Len(its) |-> i],
              LAMBDA i : YearOfDay(its[i].startDate.day) <= year
                         /\ YearOfDay(its[i].endDate.day) >= year)

filteredItems(its, year) ==
    LET idx == filteredIndices(its, year)
    IN  [k \in 1 .. Len(idx) |-> its[idx[k]]]

getYearStart(year) == SetHours(MkDate(year, 0, 1, 0), 0)

\* The three non-finite numbers of a division by zero, as numbers no day
\* count or pixel numerator of the model reaches
Infinity == 2000000000

NegInfinity == 0 - Infinity

NaN == Infinity + 1

IsFinite(n) == n \notin {Infinity, NegInfinity, NaN}

\* a + b for a finite a: a non-finite b is the sum
NumPlus(a, b) == IF IsFinite(b) THEN a + b ELSE b

\* new Date(NaN), what setDate leaves of a date when given a non-finite day
InvalidDate == [day |-> NaN, ms |-> NaN]

\* createDateAtDay that forgets the end-of-day time of an end date
createDateAtDayMidnight(yearStart, dayOffset, isEndDate) ==
    [day |-> yearStart.day + dayOffset, ms |-> 0]

createDateAtDay(yearStart, dayOffset, isEndDate) ==
    IF ~IsFinite(dayOffset) THEN InvalidDate
    ELSE [day |-> yearStart.day + dayOffset,
          ms  |-> IF isEndDate THEN EndOfDayMs ELSE 0]

\* toLocaleDateString with month and day only
formatMonthDay(date) ==
    IF date = InvalidDate THEN <<"Invalid Date">>
    ELSE <<MonthOfDay(date.day), DateOfDay(date.day)>>

\* toLocaleDateString with year, month and day (the weekday follows from them)
formatYearMonthDay(date) ==
    IF date = InvalidDate THEN <<"Invalid Date">>
    ELSE <<YearOfDay(date.day), MonthOfDay(date.day), DateOfDay(date.day)>>

\* exactPositionUncached without the widths of the months before the day's
exactPositionWithinMonth(zone, year, cw, dayOfYear) ==
    (DateOfDay(YearStartTable[year] + dayOfYear) - 1) * cw
        * (MonthsPxDen \div daysInYear(zone, year))

\* The months-view position of a day, computed afresh
exactPositionUncached(zone, year, cw, dayOfYear) ==
    LET d == YearStartTable[year] + dayOfYear
        month == MonthOfDay(d)
        day == DateOfDay(d) - 1
    IN  (DaysBeforeMonth(year, month) + day) * cw
            * (MonthsPxDen \div daysInYear(zone, year))

getExactPositionForDay(zone, view, year, cw, cache, dayOfYear) ==
    IF view # "months" THEN dayOfYear * dayWidth(view, cw)
    ELSE IF dayOfYear \in DOMAIN cache THEN cache[dayOfYear]
    ELSE exactPositionUncached(zone, year, cw, dayOfYear)

\* pixels / 0
DivByZero(pixels) ==
    IF pixels > 0 THEN Infinity ELSE IF pixels < 0 THEN NegInfinity ELSE NaN

\* Math.round(pixels / dayWidth.value), pixels a numerator over PxDen(view)
pixelsToDays(view, cw, pixels) ==
    IF dayWidth(view, cw) = 0 THEN DivByZero(pixels)
    ELSE RoundDiv(pixels, dayWidth(view, cw))

daysToPixels(view, cw, days) == days * dayWidth(view, cw)

\* daysFromYearStartToItemStart: the clamped start date's day offset
itemStartDay(zone, year, item) ==
    LET yearStart == MkDate(year, 0, 1, 0)
        effectiveStartDate ==
            SetHours(IF DateLT(zone, item.startDate, yearStart)
                     THEN yearStart ELSE item.startDate, 0)
    IN  Max(0, FloorDaysBetween(zone, effectiveStartDate, yearStart))

\* daysFromYearStartToItemEnd: the clamped end date's day offset
itemEndDay(zone, year, item) ==
    LET yearStart == MkDate(year, 0, 1, 0)
        yearEnd == MkDate(year, 11, 31, LastSecondMs)
        effectiveEndDate ==
            SetHours(IF DateLT(zone, yearEnd, item.endDate)
                     THEN yearEnd ELSE item.endDate, EndOfDayMs)
    IN  FloorDaysBetween(zone, effectiveEndDate, yearStart)

\* The duration without its one-day floor
durationInDaysUnfloored(startDay, endDay) == endDay - startDay + 1

\* durationInDays: Math.max(1, end - start + 1)
durationInDays(startDay, endDay) == Max(1, endDay - startDay + 1)

\* One item projected on the visible year; left and width are numerators
\* over PxDen(view). The style strings carry the same two numbers.
computeDateBasedPosition(zone, view, year, cw, cache, item) ==
    LET daysFromYearStartToItemStart == itemStartDay(zone, year, item)
        daysFromYearStartToItemEnd == itemEndDay(zone, year, item)
        duration ==
            durationInDays(daysFromYearStartToItemStart, daysFromYearStartToItemEnd)
        left ==
            IF view = "months"
            THEN getExactPositionForDay(zone, view, year, cw, cache,
                                        daysFromYearStartToItemStart)
            ELSE daysFromYearStartToItemStart * dayWidth(view, cw)
        endPosition ==
            getExactPositionForDay(zone, view, year, cw, cache,
                                   daysFromYearStartToItemEnd)
        width ==
            IF view = "months"
            THEN Max(4 * PxDen(view), endPosition - left)
            ELSE duration * dayWidth(view, cw)
    IN  [id |-> item.id, title |-> item.title,
         startDate |-> item.startDate, endDate |-> item.endDate,
         start |-> daysFromYearStartToItemStart,
         width |-> width,
         durationDays |-> duration,
         left |-> left,
         style |-> [left |-> left, width |-> width]]

\* effectiveStartDateIs without the copy: the item's own startDate object
effectiveStartDateIsShared(zone, year, item) ==
    IF DateLT(zone, item.startDate, MkDate(year, 0, 1, 0)) THEN "yearStart" ELSE "item"

\* The object effectiveStartDate refers to: the local yearStart, or a copy
\* made by new Date(item.startDate)
effectiveStartDateIs(zone, year, item) ==
    IF DateLT(zone, item.startDate, MkDate(year, 0, 1, 0)) THEN "yearStart" ELSE "copy"

\* The object effectiveEndDate refers to: the local yearEnd, or a copy made by
\* new Date(item.endDate)
effectiveEndDateIs(zone, year, item) ==
    IF DateLT(zone, MkDate(year, 11, 31, LastSecondMs), item.endDate)
    THEN "yearEnd" ELSE "copy"

\* The caller's item once computeDateBasedPosition has run on it: setHours
\* changes the item's own date only where the effective date is that object
itemAfterProjection(zone, year, item) ==
    [item EXCEPT
        !.startDate = IF effectiveStartDateIs(zone, year, item) = "item"
                      THEN SetHours(@, 0) ELSE @,
        !.endDate = IF effectiveEndDateIs(zone, year, item) = "item"
                    THEN SetHours(@, EndOfDayMs) ELSE @]

\* The caller's collection once computedObjectives has projected the items
\* the year filter keeps
itemsAfterRender(zone, year, its) ==
    [i \in 1 .. Len(its) |->
        IF YearOfDay(its[i].startDate.day) <= year /\ YearOfDay(its[i].endDate.day) >= year
        THEN itemAfterProjection(zone, year, its[i])
        ELSE its[i]]

\* Day offsets whose months-view position rendering one item looks up
positionKeys(zone, year, item) ==
    {itemStartDay(zone, year, item), itemEndDay(zone, year, item)}

\* computedObjectives: filteredItems.value.map(computeDateBasedPosition)
renderObjectives(zone, view, year, cw, cache, its) ==
    LET f == filteredItems(its, year)
    IN  [k \in 1 .. Len(f) |->
            computeDateBasedPosition(zone, view, year, cw, cache, f[k])]

\* dayPositionCache after that rendering: getExactPositionForDay stores every
\* position it had to compute (months view only)
renderCache(zone, view, year, cw, cache, its) ==
    IF view # "months" THEN cache
    ELSE LET f == filteredItems(its, year)
             keys == UNION {positionKeys(zone, year, f[k]) : k \in 1 .. Len(f)}
         IN  [d \in (DOMAIN cache) \cup keys |->
                 IF d \in DOMAIN cache THEN cache[d]
                 ELSE exactPositionUncached(zone, year, cw, d)]

\* One month label before the residual is added: the text is the short month
\* name with the two-digit year, the width Math.round(lastDay / daysInYear * cw)
monthLabel(zone, year, cw, i) ==
    [text  |-> <<i, year % 100>>,
     width |-> RoundDiv(DaysInMonth(year, i) * cw, daysInYear(zone, year))]

RECURSIVE labelsTotalWidth(_, _)
\* labels.reduce((sum, label) => sum + label.width, 0) over the first n labels
labelsTotalWidth(labels, n) ==
    IF n = 0 THEN 0 ELSE labelsTotalWidth(labels, n - 1) + labels[n].width

\* labels[11].width += containerWidth - totalWidth
withResidual(labels, cw) ==
    [labels EXCEPT ![12].width = @ + (cw - labelsTotalWidth(labels, 12))]

\* generateMonthLabels that leaves the rounded widths as they are
generateMonthLabelsRounded(zone, year, cw) ==
    [i \in 1 .. 12 |-> monthLabel(zone, year, cw, i - 1)]

generateMonthLabels(zone, year, cw) ==
    withResidual([i \in 1 .. 12 |-> monthLabel(zone, year, cw, i - 1)], cw)

RECURSIVE DaysSince2000(_)
\* Days from Jan 1 2000 to Jan 1 of year y
DaysSince2000(y) == IF y <= 2000 THEN 0 ELSE DaysSince2000(y - 1) + YearLen(y - 1)

\* getDay() of a day number, 0 = Sunday; Jan 1 2000 was a Saturday
WeekDayOf(day) == (6 + DaysSince2000(EpochYear) + day) % 7

\* The label of the week starting on a day: "W<n> (<month>)" with
\* n = Math.ceil((getDate() + getDay() of the month's first) / 7)
weekLabel(view, cw, day) ==
    [text  |-> <<"W",
                 (DateOfDay(day) + WeekDayOf(day - DateOfDay(day) + 1) + 6) \div 7,
                 MonthOfDay(day)>>,
     width |-> 7 * dayWidth(view, cw)]

\* generateWeekLabels: one label per week, from the Sunday on or before Jan 1
generateWeekLabels(zone, view, year, cw) ==
    [i \in 1 .. totalTimeUnits(zone, view, year) |->
        weekLabel(view, cw,
                  YearStartTable[year] - WeekDayOf(YearStartTable[year]) + 7 * (i - 1))]

\* The label of a day: "<day> <month>"
dayLabel(view, cw, day) ==
    [text |-> <<DateOfDay(day), MonthOfDay(day)>>, width |-> dayWidth(view, cw)]

\* generateDayLabels: one label per day offset below daysInYear
generateDayLabels(zone, view, year, cw) ==
    [i \in 1 .. daysInYear(zone, year) |->
        dayLabel(view, cw, YearStartTable[year] + i - 1)]

\* dayPositionCache.clear()
clearCache == << >>

----------------------------------------------------------------------------
(* The caller's side: items, props and pointer events *)

NoId == "none"

ItemA == [id |-> "a", title |-> "A",
          startDate |-> MkDate(2024, 0, 11, 0),
          endDate |-> MkDate(2024, 0, 21, EndOfDayMs)]

ItemB == [id |-> "b", title |-> "B",
          startDate |-> MkDate(2023, 11, 28, 0),
          endDate |-> MkDate(2024, 0, 3, 0)]

ItemC == [id |-> NoId, title |-> "C",
          startDate |-> MkDate(2023, 6, 1, MsPerDay \div 2),
          endDate |-> MkDate(2023, 6, 1, MsPerDay \div 2)]

ItemD == [id |-> "d", title |-> "D",
          startDate |-> MkDate(2024, 2, 10, 0),
          endDate |-> MkDate(2024, 2, 5, EndOfDayMs)]

ItemE == [id |-> "e", title |-> "E",
          startDate |-> MkDate(2023, 7, 1, 0),
          endDate |-> MkDate(2025, 7, 31, 0)]

ItemLists == {<<ItemA, ItemB>>, <<ItemC, ItemE>>, <<ItemD>>}

Years == {2023, 2024}

Widths == {90, 300}

\* Widest container whose months-view numerators stay within 32 bits
MaxMonthsWidth == 120

FitsView(view, cw) == view = "months" => cw <= MaxMonthsWidth

\* clientX of a pointer-down
PressXs == {100}

\* pointer displacements from the press position, in px
Deltas == {-30, 0, 1, 3, 4, 6, 30}

\* How many prop changes the caller makes, all before the first gesture
MaxPropChanges == 1

\* activeItemIndex null; item indices count from 1
NoIndex == 0

\* No clientX was read
NoX == 0 - 1

SetupOps == {"init", "setYear", "setView", "setWidth", "setItems"}

\* A handler call: its name, the clientX it read (NoX if it read none), and
\* how it ended
Op(name, x) == [op |-> name, x |-> x, outcome |-> "done"]

UpOutcome(x, outcome) == [op |-> "onMouseUp", x |-> x, outcome |-> outcome]

----------------------------------------------------------------------------
(* useDrag.ts *)

throttleDistance == 1

\* Minimum width of 4px, as a numerator
minWidthPx(view) == 4 * PxDen(view)

\* tooltip text of a start-resize: "Start: <weekday, month day, year>"
startContent(year, dayOffset) ==
    <<"Start", formatYearMonthDay(createDateAtDay(getYearStart(year), dayOffset, FALSE))>>

\* tooltip text of an end-resize: "End: <weekday, month day, year>"
endContent(year, dayOffset) ==
    <<"End", formatYearMonthDay(createDateAtDay(getYearStart(year), dayOffset, TRUE))>>

\* tooltip text of a move: "<month day> - <month day, year>"
moveContent(year, startDayOffset, endDayOffset) ==
    <<"Range",
      formatMonthDay(createDateAtDay(getYearStart(year), startDayOffset, FALSE)),
      formatYearMonthDay(createDateAtDay(getYearStart(year), endDayOffset, TRUE))>>

\* updateTooltipPosition: left = clientX + 10, when the tooltip is shown
tooltipLeft(tip, x) == IF tip.show THEN x + 10 ELSE tip.left

startResize(x, type, index) ==
    LET item == computedObjectives[index]
        endDay == item.start + item.durationDays - 1
        content ==
            IF type = "start" THEN startContent(selectedYear, item.start)
            ELSE IF type = "end" THEN endContent(selectedYear, endDay)
            ELSE moveContent(selectedYear, item.start, endDay)
    IN  /\ isDragging' = TRUE
        /\ dragType' = type
        /\ activeItemIndex' = index
        /\ initialMouseX' = x
        /\ isFirstDragMovement' = TRUE
        /\ lastProcessedX' = x
        /\ initialItemWidth' = item.width
        /\ initialItemStartPx' = item.left
        /\ initialStartDay' = item.start
        /\ initialEndDay' = endDay
        /\ activeItemStyle' = item.style
        /\ tooltipState' = [show |-> TRUE, content |-> content, left |-> x + 10]
        /\ userSelect' = "none"

\* handleStartResizePixels that lets the left edge pass the right edge
handleStartResizePixelsUnlimited(deltaX) ==
    LET dayOffset == NumPlus(initialStartDay,
                             pixelsToDays(viewMode, containerWidth, deltaX))
    IN  [style |-> [left |-> initialItemStartPx + deltaX,
                    width |-> initialItemWidth - deltaX],
         content |-> startContent(selectedYear, dayOffset)]

\* updateItemStylePixels, then the tooltip text, of a resize-start
handleStartResizePixels(deltaX) ==
    LET maxDeltaX == initialItemWidth - minWidthPx(viewMode)
        limitedDeltaX == Min(deltaX, maxDeltaX)
        newLeft == initialItemStartPx + limitedDeltaX
        newWidth == initialItemWidth - limitedDeltaX
        dayOffset == NumPlus(initialStartDay,
                             pixelsToDays(viewMode, containerWidth, limitedDeltaX))
    IN  [style |-> [left |-> newLeft, width |-> newWidth],
         content |-> startContent(selectedYear, dayOffset)]

handleEndResizePixels(deltaX) ==
    LET newWidth == Max(minWidthPx(viewMode), initialItemWidth + deltaX)
        oldEndPx == initialItemStartPx + initialItemWidth
        newEndPx == initialItemStartPx + newWidth
        dayOffset == NumPlus(initialEndDay,
                             pixelsToDays(viewMode, containerWidth, newEndPx - oldEndPx))
    IN  [style |-> [left |-> initialItemStartPx, width |-> newWidth],
         content |-> endContent(selectedYear, dayOffset)]

\* handleMovePixels that follows the pointer left of the timeline's origin
handleMovePixelsUnclamped(deltaX) ==
    LET dayDelta == pixelsToDays(viewMode, containerWidth, deltaX)
    IN  [style |-> [left |-> initialItemStartPx + deltaX, width |-> initialItemWidth],
         content |-> moveContent(selectedYear, NumPlus(initialStartDay, dayDelta),
                                 NumPlus(initialEndDay, dayDelta))]

handleMovePixels(deltaX) ==
    LET newLeft == Max(0, initialItemStartPx + deltaX)
        dayDelta == pixelsToDays(viewMode, containerWidth, deltaX)
    IN  [style |-> [left |-> newLeft, width |-> initialItemWidth],
         content |-> moveContent(selectedYear, NumPlus(initialStartDay, dayDelta),
                                 NumPlus(initialEndDay, dayDelta))]

\* noActiveSession that lets every pointer event through
noActiveSessionNever == FALSE

\* !isDragging.value || activeItemIndex.value === null
noActiveSession == ~isDragging \/ activeItemIndex = NoIndex

\* isTinyFirstMovement that skips nothing
isTinyFirstMovementNever(deltaX) == FALSE

\* Math.abs(deltaX) < 2 && isFirstDragMovement.value
isTinyFirstMovement(deltaX) == Abs(deltaX) < 2 /\ isFirstDragMovement

onMouseMove(x) ==
    IF noActiveSession
    THEN UNCHANGED sessionVars
    ELSE IF Abs(x - lastProcessedX) < throttleDistance
    THEN UNCHANGED sessionVars
    ELSE LET deltaX == x - initialMouseX
         IN  /\ lastProcessedX' = x
             /\ UNCHANGED <<isDragging, dragType, activeItemIndex, initialMouseX,
                            initialItemWidth, initialItemStartPx, initialStartDay,
                            initialEndDay, userSelect>>
             /\ IF isTinyFirstMovement(deltaX)
                THEN UNCHANGED <<isFirstDragMovement, activeItemStyle, tooltipState>>
                ELSE LET h == IF dragType = "start"
                              THEN handleStartResizePixels(deltaX * PxDen(viewMode))
                              ELSE IF dragType = "end"
                              THEN handleEndResizePixels(deltaX * PxDen(viewMode))
                              ELSE handleMovePixels(deltaX * PxDen(viewMode))
                     IN  /\ isFirstDragMovement' = FALSE
                         /\ activeItemStyle' = h.style
                         /\ tooltipState' =
                                [show |-> tooltipState.show,
                                 content |-> IF tooltipState.show THEN h.content
                                             ELSE tooltipState.content,
                                 left |-> tooltipLeft(tooltipState, x)]

\* resetDragState that forgets to clear the gesture kind
resetDragStateKeepsType ==
    /\ isDragging' = FALSE
    /\ activeItemIndex' = NoIndex
    /\ userSelect' = ""
    /\ tooltipState' = [tooltipState EXCEPT !.show = FALSE]
    /\ isFirstDragMovement' = TRUE
    /\ UNCHANGED <<dragType, initialMouseX, initialItemWidth, initialItemStartPx,
                   initialStartDay, initialEndDay, lastProcessedX, activeItemStyle>>

resetDragState ==
    /\ isDragging' = FALSE
    /\ dragType' = "null"
    /\ activeItemIndex' = NoIndex
    /\ userSelect' = ""
    /\ tooltipState' = [tooltipState EXCEPT !.show = FALSE]
    /\ isFirstDragMovement' = TRUE
    /\ UNCHANGED <<initialMouseX, initialItemWidth, initialItemStartPx,
                   initialStartDay, initialEndDay, lastProcessedX, activeItemStyle>>

\* findIndex that matches by id when both items carry one, else by title
findOriginalIndexByIdElseTitle(filteredItem, originalItems) ==
    LET match(i) ==
            IF filteredItem.id # NoId /\ originalItems[i].id # NoId
            THEN filteredItem.id = originalItems[i].id
            ELSE filteredItem.title = originalItems[i].title
        hits == {i \in 1 .. Len(originalItems) : match(i)}
    IN  IF hits = {} THEN NoIndex
        ELSE CHOOSE i \in hits : \A j \in hits : i <= j

\* originalItems.findIndex(...): the first match, or NoIndex
findOriginalIndex(filteredItem, originalItems) ==
    LET match(i) ==
            /\ filteredItem.title = originalItems[i].title
            /\ (filteredItem.id # NoId /\ originalItems[i].id # NoId)
                   => filteredItem.id = originalItems[i].id
        hits == {i \in 1 .. Len(originalItems) : match(i)}
    IN  IF hits = {} THEN NoIndex
        ELSE CHOOSE i \in hits : \A j \in hits : i <= j

\* hadActualDrag without the click threshold
hadActualDragNoThreshold(x) == ~isFirstDragMovement

\* hadActualDrag with a click threshold of 5 px
hadActualDragWideThreshold(x) == ~isFirstDragMovement /\ Abs(x - initialMouseX) > 5

\* hadActualDrag of onMouseUp
hadActualDrag(x) == ~isFirstDragMovement /\ Abs(x - initialMouseX) > 3

\* commitDayDelta without the limit a resize-start puts on the displacement
commitDayDeltaUnlimited(deltaX) ==
    IF dragType = "end"
    THEN LET newWidth == initialItemWidth + deltaX
             oldEndPx == initialItemStartPx + initialItemWidth
             newEndPx == initialItemStartPx + Max(minWidthPx(viewMode), newWidth)
         IN  pixelsToDays(viewMode, containerWidth, newEndPx - oldEndPx)
    ELSE pixelsToDays(viewMode, containerWidth, deltaX)

\* The day delta onMouseUp applies for a pointer displacement (a numerator)
commitDayDelta(deltaX) ==
    IF dragType = "start"
    THEN pixelsToDays(viewMode, containerWidth,
                      Min(deltaX, initialItemWidth - minWidthPx(viewMode)))
    ELSE IF dragType = "end"
    THEN LET newWidth == initialItemWidth + deltaX
             oldEndPx == initialItemStartPx + initialItemWidth
             newEndPx == initialItemStartPx + Max(minWidthPx(viewMode), newWidth)
         IN  pixelsToDays(viewMode, containerWidth, newEndPx - oldEndPx)
    ELSE pixelsToDays(viewMode, containerWidth, deltaX)

\* updatedItem that rebuilds both dates from the session's day offsets
updatedItemBothDates(originalItem, x) ==
    LET yearStart == getYearStart(selectedYear)
        dayDelta == commitDayDelta((x - initialMouseX) * PxDen(viewMode))
        startDelta == IF dragType = "end" THEN 0 ELSE dayDelta
        endDelta == IF dragType = "start" THEN 0 ELSE dayDelta
    IN  [originalItem EXCEPT
            !.startDate = createDateAtDay(yearStart, initialStartDay + startDelta, FALSE),
            !.endDate = createDateAtDay(yearStart, initialEndDay + endDelta, TRUE)]

\* updatedItem of onMouseUp
updatedItem(originalItem, x) ==
    LET yearStart == getYearStart(selectedYear)
        dayDelta == commitDayDelta((x - initialMouseX) * PxDen(viewMode))
    IN  IF dragType = "start"
        THEN [originalItem EXCEPT
                !.startDate = createDateAtDay(yearStart,
                                  NumPlus(initialStartDay, dayDelta), FALSE)]
        ELSE IF dragType = "end"
        THEN [originalItem EXCEPT
                !.endDate = createDateAtDay(yearStart,
                                NumPlus(initialEndDay, dayDelta), TRUE)]
        ELSE [originalItem EXCEPT
                !.startDate = createDateAtDay(yearStart,
                                  NumPlus(initialStartDay, dayDelta), FALSE),
                !.endDate = createDateAtDay(yearStart,
                                NumPlus(initialEndDay, dayDelta), TRUE)]

\* commitEvents that raises the kind-specific notification first
commitEventsKindFirst(item) ==
    (IF dragType = "move" THEN <<[name |-> "move", item |-> item]>>
     ELSE <<[name |-> "resize", item |-> item]>>)
    \o <<[name |-> "update:item", item |-> item]>>

\* The caller's original item once onMouseUp has committed: the dates are
\* assigned to updatedItem, a copy made by { ...originalItem }
originalItemAfterCommit(originalItem, x) == originalItem

\* The notifications of a commit
commitEvents(item) ==
    <<[name |-> "update:item", item |-> item]>>
    \o (IF dragType = "move" THEN <<[name |-> "move", item |-> item]>>
        ELSE IF dragType \in {"start", "end"} THEN <<[name |-> "resize", item |-> item]>>
        ELSE << >>)

\* onMouseUp(event, filteredItems.value, props.items, emit) followed by
\* clearCache(), as onGlobalMouseUp calls them
onMouseUp(x) ==
    LET f == filteredItems(items, selectedYear)
    IN  IF noActiveSession
        THEN /\ UNCHANGED <<sessionVars, emitted, lastOp, items>>
             /\ dayPositionCache' = clearCache
        ELSE IF activeItemIndex \notin 1 .. Len(f)
        THEN \* filteredItem is undefined: reading its title throws
             /\ tooltipState' = [tooltipState EXCEPT !.show = FALSE]
             /\ UNCHANGED <<isDragging, dragType, activeItemIndex, initialMouseX,
                            initialItemWidth, initialItemStartPx, initialStartDay,
                            initialEndDay, lastProcessedX, isFirstDragMovement,
                            activeItemStyle, userSelect>>
             /\ emitted' = << >>
             /\ UNCHANGED <<dayPositionCache, items>>
             /\ lastOp' = UpOutcome(NoX, "threw")
        ELSE LET originalItemIndex == findOriginalIndex(f[activeItemIndex], items)
             IN  /\ resetDragState
                 /\ dayPositionCache' = clearCache
                 /\ IF originalItemIndex = NoIndex
                    THEN /\ emitted' = << >>
                         /\ lastOp' = UpOutcome(NoX, "notFound")
                         /\ UNCHANGED items
                    ELSE IF ~hadActualDrag(x)
                    THEN /\ emitted' = <<[name |-> "select",
                                          item |-> items[originalItemIndex]]>>
                         /\ lastOp' = UpOutcome(x, "selected")
                         /\ UNCHANGED items
                    ELSE /\ emitted' =
                              commitEvents(updatedItem(items[originalItemIndex], x))
                         /\ lastOp' = UpOutcome(x, "committed")
                         /\ items' = [items EXCEPT ![originalItemIndex] =
                                         originalItemAfterCommit(@, x)]

----------------------------------------------------------------------------
(* Gantt.vue: the component's life *)

Idle == ~isDragging

Rerender(view, year, cw, cache, its) ==
    /\ computedObjectives' = renderObjectives(tz, view, year, cw, cache, its)
    /\ dayPositionCache' = renderCache(tz, view, year, cw, cache, its)

Init ==
    /\ selectedYear \in Years
    /\ viewMode \in ViewModes
    /\ containerWidth \in Widths
    /\ FitsView(viewMode, containerWidth)
    /\ tz \in TimeZones
    /\ \E its \in ItemLists : items = itemsAfterRender(tz, selectedYear, its)
    /\ computedObjectives =
           renderObjectives(tz, viewMode, selectedYear, containerWidth, << >>, items)
    /\ dayPositionCache =
           renderCache(tz, viewMode, selectedYear, containerWidth, << >>, items)
    /\ isDragging = FALSE
    /\ dragType = "null"
    /\ activeItemIndex = NoIndex
    /\ initialMouseX = 0
    /\ initialItemWidth = 0
    /\ initialItemStartPx = 0
    /\ initialStartDay = 0
    /\ initialEndDay = 0
    /\ lastProcessedX = 0
    /\ isFirstDragMovement = TRUE
    /\ activeItemStyle = [left |-> 0, width |-> 0]
    /\ tooltipState = [show |-> FALSE, content |-> <<"">>, left |-> 0]
    /\ userSelect = ""
    /\ emitted = << >>
    /\ lastOp = Op("init", NoX)
    /\ propChanges = 0
    /\ calc = [op |-> "none"]

\* mousedown on an item's body or on one of its edge handles
OnResizeStart ==
    \E x \in PressXs, type \in {"start", "end", "move"},
       index \in 1 .. Len(computedObjectives) :
        /\ startResize(x, type, index)
        /\ emitted' = << >>
        /\ lastOp' = Op("startResize", x)
        /\ UNCHANGED <<propVars, dayPositionCache, computedObjectives, propChanges, calc>>

\* mousemove on the window
OnGlobalMouseMove ==
    \E d \in Deltas :
        /\ onMouseMove(initialMouseX + d)
        /\ IF isDragging /\ activeItemIndex # NoIndex
           THEN emitted' = << >> /\ lastOp' = Op("onMouseMove", initialMouseX + d)
           ELSE UNCHANGED <<emitted, lastOp>>
        /\ UNCHANGED <<propVars, dayPositionCache, computedObjectives, propChanges, calc>>

\* mouseup on the window
OnGlobalMouseUp ==
    \E d \in Deltas :
        /\ onMouseUp(initialMouseX + d)
        /\ UNCHANGED <<selectedYear, viewMode, containerWidth, tz,
                       computedObjectives, propChanges, calc>>

\* The caller may reconfigure the component until the first gesture
CanSetUp == Idle /\ lastOp.op \in SetupOps /\ propChanges < MaxPropChanges

SetYear ==
    \E y \in Years \ {selectedYear} :
        /\ CanSetUp
        /\ selectedYear' = y
        /\ items' = itemsAfterRender(tz, y, items)
        /\ Rerender(viewMode, y, containerWidth, dayPositionCache, items)
        /\ emitted' = << >>
        /\ lastOp' = Op("setYear", NoX)
        /\ propChanges' = propChanges + 1
        /\ UNCHANGED <<viewMode, containerWidth, tz, sessionVars, calc>>

SetView ==
    \E v \in ViewModes \ {viewMode} :
        /\ CanSetUp
        /\ FitsView(v, containerWidth)
        /\ viewMode' = v
        /\ items' = itemsAfterRender(tz, selectedYear, items)
        /\ Rerender(v, selectedYear, containerWidth, dayPositionCache, items)
        /\ emitted' = << >>
        /\ lastOp' = Op("setView", NoX)
        /\ propChanges' = propChanges + 1
        /\ UNCHANGED <<selectedYear, containerWidth, tz, sessionVars, calc>>

\* window resize: updateContainerWidth
UpdateContainerWidth ==
    \E w \in Widths \ {containerWidth} :
        /\ CanSetUp
        /\ FitsView(viewMode, w)
        /\ containerWidth' = w
        /\ items' = itemsAfterRender(tz, selectedYear, items)
        /\ Rerender(viewMode, selectedYear, w, clearCache, items)
        /\ emitted' = << >>
        /\ lastOp' = Op("setWidth", NoX)
        /\ propChanges' = propChanges + 1
        /\ UNCHANGED <<selectedYear, viewMode, tz, sessionVars, calc>>

\* The caller replaces the collection before the first gesture
SetItems ==
    \E its \in ItemLists \ {items} :
        /\ CanSetUp
        /\ items' = itemsAfterRender(tz, selectedYear, its)
        /\ Rerender(viewMode, selectedYear, containerWidth, dayPositionCache, its)
        /\ emitted' = << >>
        /\ lastOp' = Op("setItems", NoX)
        /\ propChanges' = propChanges + 1
        /\ UNCHANGED <<selectedYear, viewMode, containerWidth, tz, sessionVars, calc>>

\* The caller drops the last item of the collection while a gesture is in progress
RemoveLastItem ==
    /\ isDragging
    /\ Len(items) > 1
    /\ items' = itemsAfterRender(tz, selectedYear, SubSeq(items, 1, Len(items) - 1))
    /\ Rerender(viewMode, selectedYear, containerWidth, dayPositionCache, items')
    /\ emitted' = << >>
    /\ lastOp' = Op("removeItem", NoX)
    /\ UNCHANGED <<selectedYear, viewMode, containerWidth, tz, sessionVars,
                   propChanges, calc>>

Next ==
    \/ OnResizeStart
    \/ OnGlobalMouseMove
    \/ OnGlobalMouseUp
    \/ SetYear
    \/ SetView
    \/ UpdateContainerWidth
    \/ SetItems
    \/ RemoveLastItem

Spec == Init /\ [][Next]_vars

----------------------------------------------------------------------------
(* The component before its container has been measured: containerWidth is 0 *)

UnmeasuredInit ==
    /\ selectedYear \in Years
    /\ viewMode \in ViewModes
    /\ containerWidth = 0
    /\ tz \in TimeZones
    /\ \E its \in ItemLists : items = itemsAfterRender(tz, selectedYear, its)
    /\ computedObjectives =
           renderObjectives(tz, viewMode, selectedYear, containerWidth, << >>, items)
    /\ dayPositionCache =
           renderCache(tz, viewMode, selectedYear, containerWidth, << >>, items)
    /\ isDragging = FALSE
    /\ dragType = "null"
    /\ activeItemIndex = NoIndex
    /\ initialMouseX = 0
    /\ initialItemWidth = 0
    /\ initialItemStartPx = 0
    /\ initialStartDay = 0
    /\ initialEndDay = 0
    /\ lastProcessedX = 0
    /\ isFirstDragMovement = TRUE
    /\ activeItemStyle = [left |-> 0, width |-> 0]
    /\ tooltipState = [show |-> FALSE, content |-> <<"">>, left |-> 0]
    /\ userSelect = ""
    /\ emitted = << >>
    /\ lastOp = Op("init", NoX)
    /\ propChanges = 0
    /\ calc = [op |-> "none"]

UnmeasuredNext ==
    \/ OnResizeStart
    \/ OnGlobalMouseMove
    \/ OnGlobalMouseUp
    \/ RemoveLastItem

UnmeasuredSpec == UnmeasuredInit /\ [][UnmeasuredNext]_vars

----------------------------------------------------------------------------
(* The pure functions of useCalculations.ts, each called once on drawn inputs *)

CalcYears == {2022, 2023, 2024, 2025}

CalcZones == {"fixed", "north", "south"}

CalcWidths == {90, 120, 300}

\* Widest container the label probe draws; it draws every width from 0 up
MaxLabelWidth == 200

LabelWidths == 0 .. MaxLabelWidth

\* Times of day an item's date may carry: midnight, noon, 23:59:59.999
ProbeTimes == {0, MsPerDay \div 2, EndOfDayMs}

\* Dates before, inside and after the visible year
ProbeDates(year) ==
    {MkDate(dm[1], dm[2], dm[3], ms) :
        dm \in {<<year - 1, 11, 28>>, <<year, 0, 1>>, <<year, 1, 28>>,
                <<year, 6, 1>>, <<year, 11, 31>>, <<year + 1, 0, 3>>},
        ms \in ProbeTimes}

CalcInit ==
    /\ selectedYear \in CalcYears
    /\ viewMode \in ViewModes
    /\ containerWidth \in CalcWidths \cup LabelWidths
    /\ tz \in CalcZones
    /\ items = << >>
    /\ computedObjectives = << >>
    /\ dayPositionCache = << >>
    /\ isDragging = FALSE
    /\ dragType = "null"
    /\ activeItemIndex = NoIndex
    /\ initialMouseX = 0
    /\ initialItemWidth = 0
    /\ initialItemStartPx = 0
    /\ initialStartDay = 0
    /\ initialEndDay = 0
    /\ lastProcessedX = 0
    /\ isFirstDragMovement = TRUE
    /\ activeItemStyle = [left |-> 0, width |-> 0]
    /\ tooltipState = [show |-> FALSE, content |-> <<"">>, left |-> 0]
    /\ userSelect = ""
    /\ emitted = << >>
    /\ lastOp = Op("init", NoX)
    /\ propChanges = 0
    /\ calc = [op |-> "none"]

CalcDaysInYear ==
    /\ calc.op = "none"
    /\ calc' = [op |-> "daysInYear", out |-> daysInYear(tz, selectedYear)]
    /\ UNCHANGED <<propVars, dayPositionCache, computedObjectives, sessionVars,
                   emitted, lastOp, propChanges>>

\* The projection probes run on the widths the pixel numerators fit
CanProject == containerWidth \in CalcWidths /\ FitsView(viewMode, containerWidth)

CalcProject ==
    /\ calc.op = "none"
    /\ CanProject
    /\ \E s \in ProbeDates(selectedYear), e \in ProbeDates(selectedYear) :
        LET item == [id |-> "p", title |-> "P", startDate |-> s, endDate |-> e]
        IN  /\ calc' = [op |-> "project", item |-> item,
                        out |-> computeDateBasedPosition(tz, viewMode, selectedYear,
                                                         containerWidth, << >>, item)]
            /\ UNCHANGED <<propVars, dayPositionCache, computedObjectives,
                           sessionVars, emitted, lastOp, propChanges>>

CalcRoundTrip ==
    /\ calc.op = "none"
    /\ CanProject
    /\ \E d \in 0 .. (daysInYear(tz, selectedYear) - 1) :
        LET pos == getExactPositionForDay(tz, viewMode, selectedYear,
                                          containerWidth, << >>, d)
        IN  /\ calc' = [op |-> "roundTrip", d |-> d, pos |-> pos,
                        out |-> pixelsToDays(viewMode, containerWidth, pos)]
            /\ UNCHANGED <<propVars, dayPositionCache, computedObjectives,
                           sessionVars, emitted, lastOp, propChanges>>

\* Pointer displacements the inverse mapping is probed with, in px
ProbePixels == {0 - 30, 0, 30}

\* dayWidth and pixelsToDays at an unmeasured (zero) and at measured widths
CalcUnitWidth ==
    /\ calc.op = "none"
    /\ containerWidth \in {0} \cup CalcWidths
    /\ FitsView(viewMode, containerWidth)
    /\ \E p \in ProbePixels :
        /\ calc' = [op |-> "unitWidth", pixels |-> p,
                    unit |-> dayWidth(viewMode, containerWidth),
                    out |-> pixelsToDays(viewMode, containerWidth,
                                         p * PxDen(viewMode))]
        /\ UNCHANGED <<propVars, dayPositionCache, computedObjectives,
                       sessionVars, emitted, lastOp, propChanges>>

\* Last days of the first of two back-to-back items: mid-month and month ends
AdjacentEnds(year) ==
    {MkDate(year, 1, 28, EndOfDayMs), MkDate(year, 2, 10, EndOfDayMs),
     MkDate(year, 5, 15, EndOfDayMs), MkDate(year, 9, 31, EndOfDayMs)}

\* Days the first of the two items lasts
AdjacentDays == 51

\* computedObjectives over two items inside the year, B starting the day
\* after A ends
CalcAdjacent ==
    /\ calc.op = "none"
    /\ CanProject
    /\ \E e \in AdjacentEnds(selectedYear) :
        LET A == [id |-> "a", title |-> "A",
                  startDate |-> [day |-> e.day - (AdjacentDays - 1), ms |-> 0],
                  endDate |-> e]
            B == [id |-> "b", title |-> "B",
                  startDate |-> [day |-> e.day + 1, ms |-> 0],
                  endDate |-> [day |-> e.day + 3, ms |-> EndOfDayMs]]
        IN  /\ calc' = [op |-> "adjacent",
                        out |-> renderObjectives(tz, viewMode, selectedYear,
                                                 containerWidth, << >>, <<A, B>>)]
            /\ UNCHANGED <<propVars, dayPositionCache, computedObjectives,
                           sessionVars, emitted, lastOp, propChanges>>

\* timeLabels in months view
CalcMonthLabels ==
    /\ calc.op = "none"
    /\ viewMode = "months"
    /\ calc' = [op |-> "monthLabels",
                out |-> generateMonthLabels(tz, selectedYear, containerWidth)]
    /\ UNCHANGED <<propVars, dayPositionCache, computedObjectives, sessionVars,
                   emitted, lastOp, propChanges>>

\* An item of the given identity, visible in 2023 and in 2024
Named(id, title) ==
    [id |-> id, title |-> title,
     startDate |-> MkDate(2023, 11, 28, 0),
     endDate |-> MkDate(2024, 0, 3, EndOfDayMs)]

\* Collections whose items share ids or titles, and one with distinct ids
MatchLists ==
    {<<Named("g", "G1"), Named("g", "G2")>>,
     <<Named(NoId, "H"), Named("h", "H")>>,
     <<Named("k1", "K"), Named("k2", "K"), Named(NoId, "K")>>,
     <<ItemA, ItemB>>}

\* The identity lookup of onMouseUp for the item pressed at index k of the
\* filtered list
CalcFindIndex ==
    /\ calc.op = "none"
    /\ \E its \in MatchLists :
        \E k \in 1 .. Len(filteredItems(its, selectedYear)) :
            /\ calc' = [op |-> "findIndex", its |-> its,
                        pressed |-> filteredItems(its, selectedYear)[k],
                        out |-> findOriginalIndex(
                                    filteredItems(its, selectedYear)[k], its)]
            /\ UNCHANGED <<propVars, dayPositionCache, computedObjectives,
                           sessionVars, emitted, lastOp, propChanges>>

\* timeLabels in weeks view and in days view; the widths are numerators over
\* PxDen(view)
CalcScrollLabels ==
    /\ calc.op = "none"
    /\ viewMode # "months"
    /\ calc' = [op |-> "scrollLabels",
                out |-> IF viewMode = "weeks"
                        THEN generateWeekLabels(tz, viewMode, selectedYear, containerWidth)
                        ELSE generateDayLabels(tz, viewMode, selectedYear, containerWidth)]
    /\ UNCHANGED <<propVars, dayPositionCache, computedObjectives, sessionVars,
                   emitted, lastOp, propChanges>>

CalcNext ==
    \/ CalcUnitWidth
    \/ CalcAdjacent
    \/ CalcScrollLabels
    \/ CalcFindIndex
    \/ CalcDaysInYear
    \/ CalcProject
    \/ CalcRoundTrip
    \/ CalcMonthLabels

CalcSpec == CalcInit /\ [][CalcNext]_vars

----------------------------------------------------------------------------
(* Properties *)

\* A step in which onMouseUp runs in an Active session
UpStep == isDragging /\ activeItemIndex # NoIndex /\ lastOp'.op = "onMouseUp"

\* |clientX - initialMouseX| of that pointer-up, in px
Displacement == Abs(lastOp'.x - initialMouseX)

\* The item under the pressed index, as the year filter lists it at pointer-up
PressedItem == filteredItems(items, selectedYear)[activeItemIndex]

\* The pressed item exists and an item of the collection matches it
PressedFound ==
    /\ activeItemIndex <= Len(filteredItems(items, selectedYear))
    /\ \E i \in 1 .. Len(items) :
           /\ items[i].title = PressedItem.title
           /\ (items[i].id # NoId /\ PressedItem.id # NoId) => items[i].id = PressedItem.id

EventNames(events) == [i \in 1 .. Len(events) |-> events[i].name]

\* The step emitted an updated item
Committed == Len(emitted') >= 1 /\ emitted'[1].name = "update:item"

\* Both dates of an item lie in the visible year
InsideYear(item, year) ==
    YearOfDay(item.startDate.day) = year /\ YearOfDay(item.endDate.day) = year

\* C1: a pointer-up within the click threshold (|clientX - initialMouseX| <= 3)
\* of a found item emits exactly one 'select' carrying the original item, and
\* nothing else, whatever pointer-moves came before.
C1_ClickIsSelection ==
    [][(UpStep /\ PressedFound /\ Displacement <= 3)
         => emitted' = <<[name |-> "select", item |-> PressedItem]>>]_vars

\* C1 witness: a pointer-up within the threshold, after pointer-moves were
\* processed elsewhere, ended in a single 'select'.
C1_Witness ==
    /\ lastOp.op = "onMouseUp"
    /\ Abs(lastOp.x - initialMouseX) <= 3
    /\ lastProcessedX # initialMouseX
    /\ EventNames(emitted) = <<"select">>

\* C2 as stated: a pointer-up with displacement above the click threshold of a
\* found item always commits ('update:item' and no 'select'), whether or not
\* pointer-moves were delivered.
C2_DisplacementCommits ==
    [][(UpStep /\ PressedFound /\ Displacement > 3)
         => (Committed /\ \A i \in 1 .. Len(emitted') : emitted'[i].name # "select")]_vars

\* C2 amended: a pointer-up with displacement above the click threshold of a
\* found item commits ('update:item' and no 'select') provided a pointer-move of
\* the session has been processed (isFirstDragMovement is false).
C2_ProcessedDragCommits ==
    [][(UpStep /\ PressedFound /\ Displacement > 3 /\ ~isFirstDragMovement)
         => (Committed /\ \A i \in 1 .. Len(emitted') : emitted'[i].name # "select")]_vars

\* C2 witness: a pointer-up more than 3 px from the press committed.
C2_Witness ==
    /\ lastOp.op = "onMouseUp"
    /\ Abs(lastOp.x - initialMouseX) > 3
    /\ Len(emitted) >= 1
    /\ emitted[1].name = "update:item"

\* C3 as stated: a committed move shifts both dates of the original item by the
\* same day delta, the one the pointer displacement converts to, with
\* start-of-day and end-of-day times, so the span in days is preserved.
C3_MoveShiftsOriginalDates ==
    [][(UpStep /\ PressedFound /\ dragType = "move" /\ Committed)
         => LET u == emitted'[1].item
                dayDelta == pixelsToDays(viewMode, containerWidth,
                                (lastOp'.x - initialMouseX) * PxDen(viewMode))
            IN  /\ u.startDate = [day |-> PressedItem.startDate.day + dayDelta, ms |-> 0]
                /\ u.endDate = [day |-> PressedItem.endDate.day + dayDelta,
                                ms |-> EndOfDayMs]]_vars

\* C4: a committed resize-start leaves endDate, and a committed resize-end
\* leaves startDate, identical to the original item's, also when that date
\* lies outside the visible year.
C4_ResizeKeepsOtherDate ==
    [][(UpStep /\ PressedFound /\ Committed)
         => /\ dragType = "start" => emitted'[1].item.endDate = PressedItem.endDate
            /\ dragType = "end" => emitted'[1].item.startDate = PressedItem.startDate]_vars

\* C4 witness: a resize was committed on an item whose untouched date lies
\* outside the visible year, and that date is the original one.
C4_Witness ==
    /\ lastOp.op = "onMouseUp"
    /\ EventNames(emitted) = <<"update:item", "resize">>
    /\ \E i \in 1 .. Len(items) :
           /\ items[i].id = emitted[1].item.id
           /\ \/ /\ emitted[1].item.endDate = items[i].endDate
                 /\ emitted[1].item.startDate # items[i].startDate
                 /\ YearOfDay(items[i].endDate.day) > selectedYear
              \/ /\ emitted[1].item.startDate = items[i].startDate
                 /\ emitted[1].item.endDate # items[i].endDate
                 /\ YearOfDay(items[i].startDate.day) < selectedYear

\* C5: in days view, for an item inside the visible year, releasing the end
\* handle after a processed drag of k unit widths to the right (k >= 1, more
\* than 3 px) commits endDate = day initialEndDay + k at 23:59:59.999 and
\* leaves startDate unchanged.
C5_ResizeEndSnapsInDaysView ==
    [][(/\ UpStep /\ PressedFound
        /\ viewMode = "days" /\ dragType = "end" /\ ~isFirstDragMovement
        /\ InsideYear(PressedItem, selectedYear)
        /\ lastOp'.x - initialMouseX > 3
        /\ ((lastOp'.x - initialMouseX) * DayDen("days")) % containerWidth = 0)
         => LET k == ((lastOp'.x - initialMouseX) * DayDen("days")) \div containerWidth
            IN  /\ Committed
                /\ emitted'[1].item.endDate =
                       [day |-> YearStartTable[selectedYear] + initialEndDay + k,
                        ms |-> EndOfDayMs]
                /\ emitted'[1].item.startDate = PressedItem.startDate]_vars

\* C5 witness: the item on days 10..20 of 2024, its end handle dragged two
\* unit widths to the right, was committed with end day 22.
C5_Witness ==
    /\ lastOp.op = "onMouseUp"
    /\ viewMode = "days" /\ selectedYear = 2024
    /\ (lastOp.x - initialMouseX) * DayDen("days") = 2 * containerWidth
    /\ EventNames(emitted) = <<"update:item", "resize">>
    /\ emitted[1].item.startDate = MkDate(2024, 0, 11, 0)
    /\ emitted[1].item.endDate = MkDate(2024, 0, 23, EndOfDayMs)

\* C6 as stated: every committed resize of an item with endDate >= startDate
\* emits an item with startDate <= endDate.
C6_ResizeKeepsOneDay ==
    [][(/\ UpStep /\ PressedFound /\ Committed
        /\ dragType \in {"start", "end"}
        /\ ~DateLT(tz, PressedItem.endDate, PressedItem.startDate))
         => ~DateLT(tz, emitted'[1].item.endDate, emitted'[1].item.startDate)]_vars

\* C7 as stated: in every view mode, pixelsToDays(getExactPositionForDay(d))
\* differs from d by at most one day, for every day offset d of the year.
C7_RoundTripWithinOneDay ==
    calc.op = "roundTrip" => Abs(calc.out - calc.d) <= 1

\* C8 as stated: daysInYear is 365 for a non-leap year and 366 for a leap year.
C8_DaysInYearIsCalendarCount ==
    calc.op = "daysInYear" => calc.out = YearLen(selectedYear)

\* C9 as stated: an item (one the year filter keeps) that starts before Jan 1
\* of the visible year projects with start = 0, and one that ends after Dec 31
\* projects with end day start + durationDays - 1 = daysInYear - 1.
C9_ClampToYear ==
    (/\ calc.op = "project"
     /\ YearOfDay(calc.item.startDate.day) <= selectedYear
     /\ YearOfDay(calc.item.endDate.day) >= selectedYear)
      => /\ YearOfDay(calc.item.startDate.day) < selectedYear => calc.out.start = 0
         /\ YearOfDay(calc.item.endDate.day) > selectedYear
                => calc.out.start + calc.out.durationDays - 1
                       = daysInYear(tz, selectedYear) - 1

\* C10: every projected item has durationDays >= 1 and start >= 0, whatever
\* its dates (same-day, outside the year, end before start), year and view.
C10_DurationAndStartFloors ==
    calc.op = "project" => (calc.out.durationDays >= 1 /\ calc.out.start >= 0)

\* C10 witness: an item that ends before it starts was projected with a
\* duration of one day.
C10_Witness ==
    /\ calc.op = "project"
    /\ DateLT(tz, calc.item.endDate, calc.item.startDate)
    /\ calc.item.endDate.day < calc.item.startDate.day
    /\ calc.out.durationDays = 1

\* C11: in months view, for every container width from 0 up and every year,
\* generateMonthLabels returns exactly 12 labels whose widths sum to the
\* container width; the first eleven keep their rounded widths and the
\* December label takes the rounding residual.
C11_MonthLabelsSumToWidth ==
    calc.op = "monthLabels"
      => /\ Len(calc.out) = 12
         /\ labelsTotalWidth(calc.out, 12) = containerWidth
         /\ \A i \in 1 .. 11 :
                calc.out[i].width =
                    RoundDiv(DaysInMonth(selectedYear, i - 1) * containerWidth,
                             daysInYear(tz, selectedYear))

\* C11 witness: in a leap year the rounded widths did not add up to the
\* container width and the December label differs from its rounded width.
C11_Witness ==
    /\ calc.op = "monthLabels"
    /\ IsLeap(selectedYear)
    /\ containerWidth > 0
    /\ calc.out[12].width
          # RoundDiv(DaysInMonth(selectedYear, 11) * containerWidth,
                     daysInYear(tz, selectedYear))

\* C12 as stated: in months view every month label before December has the
\* width round(daysInThatMonth / daysInYear x containerWidth) with daysInYear
\* the calendar day count of the year (365 or 366); for 2023 the February
\* label is round(28 / 365 x containerWidth) wide.
C12_MonthWidthByCalendarShare ==
    calc.op = "monthLabels"
      => \A i \in 1 .. 11 :
            calc.out[i].width =
                RoundDiv(DaysInMonth(selectedYear, i - 1) * containerWidth,
                         YearLen(selectedYear))

\* C13 as stated: in months view, after any sequence of year, view and width
\* changes and gestures, getExactPositionForDay(d) returns for every day
\* offset d the value an uncached computation gives for the current year and
\* container width, that is, every cached entry equals the fresh value.
C13_CacheNeverStale ==
    viewMode = "months"
      => \A d \in DOMAIN dayPositionCache :
            getExactPositionForDay(tz, viewMode, selectedYear, containerWidth,
                                   dayPositionCache, d)
                = exactPositionUncached(tz, selectedYear, containerWidth, d)

\* C14 as stated: after every onMouseUp invoked in an Active session the
\* session is Idle (isDragging false, dragType null, activeItemIndex null),
\* the tooltip is hidden and text-selection suppression is cleared, whatever
\* the gesture and whether or not the pressed item is still found.
C14_PointerUpEndsSession ==
    lastOp.op = "onMouseUp"
      => /\ ~isDragging
         /\ dragType = "null"
         /\ activeItemIndex = NoIndex
         /\ ~tooltipState.show
         /\ userSelect = ""

\* C15 as stated: a pointer-up in an Active session whose pressed item
\* matches no item of the collection emits no notification, raises no error
\* and resets the session to Idle.
C15_NotFoundIsSilentAbort ==
    [][(UpStep /\ ~PressedFound)
         => /\ emitted' = << >>
            /\ lastOp'.outcome # "threw"
            /\ ~isDragging' /\ dragType' = "null" /\ activeItemIndex' = NoIndex]_vars

\* C16: a pointer-up that emits 'update:item' emits it first and exactly
\* once, followed by exactly one kind-specific notification carrying the same
\* item value: 'move' for a move gesture, 'resize' for a resize-start or
\* resize-end gesture; it emits no 'select'.
C16_CommitProtocol ==
    [][(UpStep /\ \E i \in 1 .. Len(emitted') : emitted'[i].name = "update:item")
         => /\ dragType \in {"move", "start", "end"}
            /\ emitted' =
                  <<[name |-> "update:item", item |-> emitted'[1].item],
                    [name |-> IF dragType = "move" THEN "move" ELSE "resize",
                     item |-> emitted'[1].item]>>]_vars

\* C16 witness: a move gesture was committed and raised 'update:item' and
\* then 'move' with the same item, whose dates differ from the original's.
C16_Witness ==
    /\ lastOp.op = "onMouseUp"
    /\ EventNames(emitted) = <<"update:item", "move">>
    /\ emitted[1].item = emitted[2].item
    /\ \E i \in 1 .. Len(items) :
           /\ items[i].title = emitted[1].item.title
           /\ items[i].startDate # emitted[1].item.startDate

\* The least index of a set of indices, NoIndex if there is none
FirstOf(hits) ==
    IF hits = {} THEN NoIndex ELSE CHOOSE i \in hits : \A j \in hits : i <= j

\* Every item of a collection carries an id and the ids are distinct
DistinctIds(its) ==
    \A i, j \in 1 .. Len(its) :
        its[i].id # NoId /\ (i # j => its[i].id # its[j].id)

\* C17 as stated: the original item chosen for a pressed item is the first
\* item of the collection with the same id when both carry an id, and
\* otherwise with the same title.
C17_FirstByIdElseTitle ==
    calc.op = "findIndex"
      => calc.out =
             FirstOf({i \in 1 .. Len(calc.its) :
                        IF calc.pressed.id # NoId /\ calc.its[i].id # NoId
                        THEN calc.pressed.id = calc.its[i].id
                        ELSE calc.pressed.title = calc.its[i].title})

\* C17 amended: the original item chosen for a pressed item is the first
\* item of the collection with the same title and, when both carry an id,
\* also the same id; when every item has an id and ids are distinct, the
\* chosen item (whose id every notification carries) has the pressed id.
C17_FirstByTitleAndId ==
    calc.op = "findIndex"
      => /\ calc.out =
                FirstOf({i \in 1 .. Len(calc.its) :
                           /\ calc.pressed.title = calc.its[i].title
                           /\ (calc.pressed.id # NoId /\ calc.its[i].id # NoId)
                                  => calc.pressed.id = calc.its[i].id})
         /\ DistinctIds(calc.its)
                    => (calc.out # NoIndex /\ calc.its[calc.out].id = calc.pressed.id)

\* C17 witness: the item chosen for a pressed item that carries an id is an
\* earlier item of the same title that carries none.
C17_Witness ==
    /\ calc.op = "findIndex"
    /\ calc.out # NoIndex
    /\ calc.pressed.id # NoId
    /\ calc.its[calc.out].id = NoId
    /\ calc.its[calc.out].title = calc.pressed.title

\* C18: no projection and no pointer-down, pointer-move or pointer-up changes
\* an item of the caller's collection: across every handler and re-render the
\* collection keeps the values the caller gave it, and a committed gesture
\* leaves the original item's dates as they were.
C18_ItemsNeverMutated ==
    [][/\ lastOp'.op \in {"startResize", "onMouseMove", "onMouseUp",
                          "setYear", "setView", "setWidth"} => items' = items
       /\ lastOp'.op = "setItems" => items' \in ItemLists
       /\ lastOp'.op = "removeItem" => items' = SubSeq(items, 1, Len(items) - 1)]_vars

\* C18 witness: a gesture on the item dated Jul 1 2023 12:00 was committed
\* with new dates, and the collection still holds the item with its noon
\* dates.
C18_Witness ==
    /\ lastOp.op = "onMouseUp"
    /\ Len(emitted) = 2
    /\ emitted[1].item.title = "C"
    /\ emitted[1].item.startDate # ItemC.startDate
    /\ emitted[1].item.endDate # ItemC.endDate
    /\ items \in ItemLists
    /\ items[1] = ItemC

\* The indices of the items whose date range overlaps the visible year
Overlapping == {i \in 1 .. Len(items) :
                  /\ YearOfDay(items[i].startDate.day) <= selectedYear
                  /\ selectedYear <= YearOfDay(items[i].endDate.day)}

\* The k-th smallest index of a set of indices
Kth(indices, k) == CHOOSE i \in indices : Cardinality({j \in indices : j <= i}) = k

\* C19: the filtered list holds exactly the items whose date range overlaps
\* the visible year (startDate's year <= Y <= endDate's year) in their
\* original order, and computedObjectives holds exactly one computed item per
\* filtered item, in the same order, carrying that item's identity and dates.
C19_FilterKeepsOverlapping ==
    /\ Len(filteredItems(items, selectedYear)) = Cardinality(Overlapping)
    /\ Len(computedObjectives) = Cardinality(Overlapping)
    /\ \A k \in 1 .. Cardinality(Overlapping) :
          /\ filteredItems(items, selectedYear)[k] = items[Kth(Overlapping, k)]
          /\ computedObjectives[k].id = items[Kth(Overlapping, k)].id
          /\ computedObjectives[k].title = items[Kth(Overlapping, k)].title
          /\ computedObjectives[k].startDate = items[Kth(Overlapping, k)].startDate
          /\ computedObjectives[k].endDate = items[Kth(Overlapping, k)].endDate

\* C19 witness: after the visible year changed from 2024 to 2023, of the two
\* items only the one spanning Dec 28 2023 - Jan 3 2024, which was listed for
\* 2024 too, is listed; the item of January 2024 is not.
C19_Witness ==
    /\ lastOp.op = "setYear"
    /\ selectedYear = 2023
    /\ items = <<ItemA, ItemB>>
    /\ Len(computedObjectives) = 1
    /\ computedObjectives[1].id = "b"

\* C20 as stated: the item a committed move gesture emits while year Y is
\* visible still passes the year-Y filter: its startDate's year <= Y <= its
\* endDate's year, whatever the pointer displacement.
C20_MoveStaysInVisibleYear ==
    (/\ lastOp.op = "onMouseUp"
     /\ Len(emitted) = 2
     /\ emitted[2].name = "move")
      => /\ YearOfDay(emitted[1].item.startDate.day) <= selectedYear
         /\ selectedYear <= YearOfDay(emitted[1].item.endDate.day)

RECURSIVE WidthBetween(_, _, _)
\* The sum of the widths of labels lo .. hi, by halving
WidthBetween(labels, lo, hi) ==
    IF lo > hi THEN 0
    ELSE IF lo = hi THEN labels[lo].width
    ELSE WidthBetween(labels, lo, (lo + hi) \div 2)
             + WidthBetween(labels, (lo + hi) \div 2 + 1, hi)

\* C21 as stated: in weeks view and in days view, for every year and positive
\* container width, the widths of the generated labels sum to timelineWidth.
C21_LabelsTileTimeline ==
    (calc.op = "scrollLabels" /\ containerWidth > 0)
      => WidthBetween(calc.out, 1, Len(calc.out))
             = timelineWidth(tz, viewMode, selectedYear, containerWidth)

\* C22 as stated: for two items inside the visible year where A ends on day k
\* and B starts on day k + 1, A.left + A.width = B.left in every view mode.
C22_AdjacentItemsTouch ==
    calc.op = "adjacent"
      => calc.out[1].left + calc.out[1].width = calc.out[2].left

\* C23 as stated: when the container width is 0 the day width used by the
\* projection and by the inverse mapping is a positive default, and every
\* pixelsToDays result is finite.
C23_ZeroWidthFallsBack ==
    (calc.op = "unitWidth" /\ containerWidth = 0)
      => (calc.unit > 0 /\ IsFinite(calc.out))

\* Some date of an emitted item is an Invalid Date
EmitsInvalidDate ==
    \E k \in 1 .. Len(emitted) :
        InvalidDate \in {emitted[k].item.startDate, emitted[k].item.endDate}

\* C24 as stated: whenever the day delta computed at a pointer-move or at
\* pointer-up is non-finite (unit width 0), the update is aborted: a move
\* leaves the active geometry as it was, and no item carrying an invalid date
\* is emitted.
C24_NonFiniteNeverApplied ==
    [][/\ (/\ lastOp'.op = "onMouseMove"
            /\ ~isFirstDragMovement'
            /\ dayWidth(viewMode, containerWidth) = 0)
              => activeItemStyle' = activeItemStyle
       /\ ~EmitsInvalidDate']_vars

\* C25: in every reachable state the three session fields agree: isDragging
\* is true iff activeItemIndex is non-null iff dragType is non-null, and
\* dragType is null or one of the three gesture kinds.
C25_SessionFieldsAgree ==
    /\ isDragging <=> activeItemIndex # NoIndex
    /\ isDragging <=> dragType # "null"
    /\ dragType \in {"null", "start", "end", "move"}

\* C25 witness: a session has been started, moved and ended, and the
\* fields agree on Idle again.
C25_Witness ==
    /\ lastOp.op = "onMouseUp"
    /\ lastOp.outcome = "committed"
    /\ ~isDragging /\ dragType = "null" /\ activeItemIndex = NoIndex

\* C26 as stated: after every event handler returns, tooltipState.show is
\* true iff a session is Active, and text selection is suppressed
\* (userSelect = 'none') iff a session is Active.
C26_TooltipLivesWithSession ==
    lastOp.outcome # "threw"
      => /\ tooltipState.show <=> isDragging
         /\ userSelect = "none" <=> isDragging

\* The last pointer-up committed at the X of the session's last processed move
CommittedAtLastMove ==
    /\ lastOp.op = "onMouseUp"
    /\ lastOp.outcome = "committed"
    /\ lastOp.x = lastProcessedX

\* C27: when a gesture is committed at the X of the session's last processed
\* pointer-move, the dates the tooltip previewed at that move (start for a
\* resize-start, end for a resize-end, both for a move) are the dates of the
\* committed item.
C27_PreviewEqualsCommit ==
    CommittedAtLastMove
      => LET u == emitted[1].item
             kind == tooltipState.content[1]
         IN  /\ kind = "Range" <=> emitted[2].name = "move"
             /\ kind = "Start"
                  => tooltipState.content = <<"Start", formatYearMonthDay(u.startDate)>>
             /\ kind = "End"
                  => tooltipState.content = <<"End", formatYearMonthDay(u.endDate)>>
             /\ kind = "Range"
                  => tooltipState.content =
                         <<"Range", formatMonthDay(u.startDate),
                           formatYearMonthDay(u.endDate)>>

\* C27 witness: a resize-start dragged further right than the item is wide
\* was committed at the position of its last processed move.
C27_Witness ==
    /\ CommittedAtLastMove
    /\ tooltipState.content[1] = "Start"
    /\ (lastOp.x - initialMouseX) * PxDen(viewMode)
           > initialItemWidth - minWidthPx(viewMode)

\* The last handler was a pointer-move the session processed
MoveProcessed ==
    /\ lastOp.op = "onMouseMove"
    /\ isDragging
    /\ ~isFirstDragMovement

\* The displacement of the last handler's clientX from the press, as a numerator
LastDeltaX == (lastOp.x - initialMouseX) * PxDen(viewMode)

\* C28: after every processed pointer-move of a resize-start, left =
\* initialLeft + min(deltaX, initialWidth - 4) and width = initialWidth -
\* min(deltaX, initialWidth - 4); so the right edge stays where it was and
\* the width is at least 4 px.
C28_ResizeStartGeometry ==
    (MoveProcessed /\ dragType = "start")
      => LET limited == Min(LastDeltaX, initialItemWidth - minWidthPx(viewMode))
         IN  /\ activeItemStyle.left = initialItemStartPx + limited
             /\ activeItemStyle.width = initialItemWidth - limited
             /\ activeItemStyle.left + activeItemStyle.width
                    = initialItemStartPx + initialItemWidth
             /\ activeItemStyle.width >= minWidthPx(viewMode)

\* C28 witness: a resize-start was dragged right by more than the item's
\* width allows, and the width stopped at 4 px.
C28_Witness ==
    /\ MoveProcessed /\ dragType = "start"
    /\ LastDeltaX > initialItemWidth - minWidthPx(viewMode)
    /\ initialItemWidth > minWidthPx(viewMode)
    /\ activeItemStyle.width = minWidthPx(viewMode)

\* C29: after every processed pointer-move of a move gesture, left =
\* max(0, initialLeft + deltaX) and the width is the initial width: the left
\* is never negative and the width never changes.
C29_MoveGeometry ==
    (MoveProcessed /\ dragType = "move")
      => /\ activeItemStyle.left = Max(0, initialItemStartPx + LastDeltaX)
         /\ activeItemStyle.width = initialItemWidth
         /\ activeItemStyle.left >= 0

\* C29 witness: an item was moved left past the origin of the timeline and
\* is displayed at left 0.
C29_Witness ==
    /\ MoveProcessed /\ dragType = "move"
    /\ initialItemStartPx + LastDeltaX < 0
    /\ activeItemStyle.left = 0

\* The tooltip text startResize sets for the session's gesture
PressContent ==
    IF dragType = "start" THEN startContent(selectedYear, initialStartDay)
    ELSE IF dragType = "end" THEN endContent(selectedYear, initialEndDay)
    ELSE moveContent(selectedYear, initialStartDay, initialEndDay)

\* C30: in an Active session with no movement processed yet, a pointer-move
\* less than 2 px from the press leaves the active geometry and the tooltip
\* text as pointer-down set them; and a pointer-move less than 1 px from the
\* last processed X changes nothing.
C30_SubThresholdIgnored ==
    [][(isDragging /\ lastOp'.op = "onMouseMove")
         => /\ (isFirstDragMovement /\ Abs(lastOp'.x - initialMouseX) < 2)
                 => /\ activeItemStyle' = activeItemStyle
                    /\ activeItemStyle' = [left |-> initialItemStartPx,
                                           width |-> initialItemWidth]
                    /\ tooltipState' = tooltipState
                    /\ tooltipState'.content = PressContent
                    /\ isFirstDragMovement'
            /\ Abs(lastOp'.x - lastProcessedX) < throttleDistance
                 => UNCHANGED <<sessionVars, items, computedObjectives>>]_vars

\* C30 witness: a pointer-move 1 px from the press was handled in a session
\* that has processed no movement, and the geometry is the pressed item's.
C30_Witness ==
    /\ isDragging /\ isFirstDragMovement
    /\ lastOp.op = "onMouseMove"
    /\ lastOp.x - initialMouseX = 1
    /\ lastProcessedX = lastOp.x
    /\ activeItemStyle = [left |-> initialItemStartPx, width |-> initialItemWidth]

\* C31 as stated: days view generates one label per calendar day of the
\* visible year: as many labels as the year has days (365 or 366), the last
\* one naming Dec 31, every one as wide as the unit width.
C31_OneDayLabelPerCalendarDay ==
    (calc.op = "scrollLabels" /\ viewMode = "days")
      => /\ Len(calc.out) = YearLen(selectedYear)
         /\ calc.out[Len(calc.out)].text = <<31, 11>>
         /\ \A i \in 1 .. Len(calc.out) :
                calc.out[i].width = dayWidth(viewMode, containerWidth)

\* C32: in months view getExactPositionForDay(0) = 0, the position of every
\* day offset of the year is at least that of the day before it (so the
\* mapping is monotonic over the year) and at most the container width.
C32_MonthPositionsMonotonic ==
    (calc.op = "roundTrip" /\ viewMode = "months" /\ calc.d < YearLen(selectedYear))
      => /\ calc.d = 0 => calc.pos = 0
         /\ calc.d > 0
              => getExactPositionForDay(tz, viewMode, selectedYear, containerWidth,
                                        << >>, calc.d - 1) <= calc.pos
         /\ calc.pos <= containerWidth * PxDen(viewMode)

\* C32 witness: the position of Feb 1, the first day after a month boundary,
\* was computed and lies right of the origin.
C32_Witness ==
    /\ calc.op = "roundTrip" /\ viewMode = "months"
    /\ calc.d = 31
    /\ calc.pos > 0

\* The last handler committed a gesture
LastCommitted == lastOp.op = "onMouseUp" /\ lastOp.outcome = "committed"

\* The day offset of a date from Jan 1 of the visible year
OffsetInYear(date) == date.day - YearStartTable[selectedYear]

\* The day offset lies inside the visible year
OffsetInside(date) ==
    OffsetInYear(date) >= 0 /\ OffsetInYear(date) < YearLen(selectedYear)

\* C33 as stated: for every committed gesture whose resulting day offsets lie
\* inside the visible year, projecting the emitted item in the same year
\* gives start = the committed start offset (resize-start and move) and
\* start + durationDays - 1 = the committed end offset (resize-end and move).
C33_CommitReprojects ==
    LastCommitted
      => LET u == emitted[1].item
             kind == tooltipState.content[1]
             p == computeDateBasedPosition(tz, viewMode, selectedYear,
                                           containerWidth, << >>, u)
         IN  /\ (kind \in {"Start", "Range"} /\ OffsetInside(u.startDate))
                  => p.start = OffsetInYear(u.startDate)
             /\ (kind \in {"End", "Range"} /\ OffsetInside(u.endDate)
                   /\ (kind = "Range" => OffsetInside(u.startDate)))
                  => p.start + p.durationDays - 1 = OffsetInYear(u.endDate)

\* C34 as stated: a gesture that is committed while its pixel delta converts
\* to a day delta of 0 emits an item whose startDate and endDate equal the
\* original item's.
C34_ZeroDeltaKeepsDates ==
    [][(/\ UpStep /\ PressedFound /\ Committed
        /\ commitDayDelta((lastOp'.x - initialMouseX) * PxDen(viewMode)) = 0)
         => /\ emitted'[1].item.startDate = PressedItem.startDate
            /\ emitted'[1].item.endDate = PressedItem.endDate]_vars

\* C35 as stated: for every committed gesture the day delta applied to the
\* dragged date never has the sign opposite to the pointer displacement:
\* dragging right never moves the date earlier, dragging left never later.
C35_CommitFollowsPointer ==
    [][(UpStep /\ PressedFound /\ Committed)
         => LET dayDelta == commitDayDelta((lastOp'.x - initialMouseX) * PxDen(viewMode))
            IN  /\ lastOp'.x > initialMouseX => dayDelta >= 0
                /\ lastOp'.x < initialMouseX => dayDelta <= 0]_vars

\* What resetDragState assigns already holds: running it again changes nothing
ResetIsFixed ==
    /\ ~isDragging /\ dragType = "null" /\ activeItemIndex = NoIndex
    /\ userSelect = "" /\ ~tooltipState.show /\ isFirstDragMovement

\* C36: in the Idle state a pointer-move and a pointer-up emit nothing and
\* leave the session fields, the active geometry and the tooltip unchanged;
\* and the state resetDragState leaves is one it would not change.
C36_IdlePointerEventsAreNoOps ==
    [][/\ (~isDragging /\ (OnGlobalMouseMove \/ OnGlobalMouseUp))
            => UNCHANGED <<sessionVars, emitted, lastOp, items>>
       /\ (lastOp'.op = "onMouseUp" /\ lastOp'.outcome # "threw") => ResetIsFixed']_vars

\* C36 witness: a pointer-up arrived before any gesture (it cleared the
\* month positions cached by the first rendering) and left no other trace.
C36_Witness ==
    /\ lastOp.op = "init"
    /\ ~isDragging /\ emitted = << >>
    /\ viewMode = "months" /\ Len(computedObjectives) > 0
    /\ dayPositionCache = << >>
    /\ tooltipState = [show |-> FALSE, content |-> <<"">>, left |-> 0]

\* The index (from 0) of the week label whose 7 days, counted from the week
\* start on or before Jan 1, contain day offset d
WeekOfOffset(d) == (d + WeekDayOf(YearStartTable[selectedYear])) \div 7

\* C37 as stated: in weeks view the pixel position of every day offset d of
\* the visible year, d x unitWidth, lies inside the column of the week label
\* whose week contains day d: [7 x i x unitWidth, 7 x (i + 1) x unitWidth).
C37_WeekColumnsLineUp ==
    (calc.op = "scrollLabels" /\ viewMode = "weeks" /\ containerWidth > 0)
      => \A d \in 0 .. YearLen(selectedYear) - 1 :
            LET i == WeekOfOffset(d)
                unitWidth == dayWidth(viewMode, containerWidth)
                x == getExactPositionForDay(tz, viewMode, selectedYear,
                                            containerWidth, << >>, d)
            IN  /\ i + 1 <= Len(calc.out)
                /\ calc.out[i + 1].width = 7 * unitWidth
                /\ 7 * i * unitWidth <= x
                /\ x < 7 * (i + 1) * unitWidth
====
